---- MODULE Spec2Model ----
(***************************************************************************)
(* A model of the PubMed/PMC collection scripts under                      *)
(* src/scripts/data_collection: the rate limiter, the API client, the      *)
(* article store, the collection drivers, the deduplicator and the         *)
(* content validator.                                                      *)
(*                                                                         *)
(* Each component has its own specification over the one set of variables *)
(* (SpecDedup, SpecDedupIO, SpecRate, SpecStore, SpecCollect, SpecRun,    *)
(* SpecValidate): the scripts are separate processes that share nothing   *)
(* but the files on disk.                                                  *)
(***************************************************************************)
EXTENDS Integers, Sequences, FiniteSets, TLC

VARIABLES
    \* ---- deduplicate_collections.py
    files,          \* the metadata files of the input trees, in scan order
    out_meta,       \* OUTPUT_DIR/metadata: pmid -> record written (or NoRec)
    out_ft,         \* OUTPUT_DIR/fulltext: pmc id -> blob copied (or 0)
    written,        \* pmids whose metadata the latest run wrote, in order
    report,         \* the report the latest run returned (or NoReport)
    dedup_status,   \* "idle" | "done" | "crashed" (ZeroDivisionError)
    runs,           \* runs of deduplicate_collections attempted so far
    write_errors,   \* writes into OUTPUT_DIR that raised during the latest run
    \* ---- the rate limiter of one collector instance
    now,                \* time.time(), in ticks
    last_request_time,  \* self.last_request_time
    request_interval,   \* self.request_interval / RATE_LIMIT_DELAY, in ticks
    rl_log,             \* per call of _rate_limit: when it returned, how long it slept
    \* ---- one output root of a collection script (the article store)
    collector,      \* "pubmed": PubMedCollector and the function drivers;
                    \* "entrez": the class collectors (MeSH, symptom, diagnostic)
    tree_meta,      \* <root>/metadata: file name -> content
    tree_ft,        \* <root>/fulltext: pmc id -> body of <pmc id>.xml
    saved,          \* the contents handed to the saves so far, in order
    saves,          \* store saves made so far
    \* ---- the API client and the driver of one query
    batch_size,     \* identifiers per esummary request
    src_pmc,        \* the pmids for which the source lists a PMC id
    pc,             \* "idle" | "search" | "metadata" | "records" | "done" (the
                    \* query), "finished" | "crashed" (the run)
    pmid_list,      \* the search result
    metadata_list,  \* the metadata fetched
    pmid_to_pmcid,  \* pmid -> PMC id (0: no entry)
    idx,            \* records of zip(pmid_list, metadata_list) processed
    collected,      \* 'collected' / collected_count of the function drivers
    fulltext_count, \* fulltext_count / fulltext
    summary,        \* the summary file of the query (or NoSummary)
    op_events,      \* _rate_limit calls and requests of the latest client operation
    iter_log,       \* what each iteration of the record loop did
    op_log,         \* the operations of the query so far, in program order
    req_log,        \* the outbound requests of the query so far, in order
    search_ok,      \* whether the esearch request of the query succeeded
    failed_batches, \* the esummary requests of the query that raised
    omitted_ids,    \* the ids the esummary responses left out
    \* ---- the run of a collection script over its queries
    query_no,       \* the query being processed, 1..NumQueries
    results,        \* what the queries processed so far returned, in order
    overall,        \* the global summary of the run (or NoOverall)
    \* ---- validate_content_quality.py, for one article
    abstract,       \* the abstract in the metadata file: a sequence of words
    sections,       \* the full-text file: whether it exists, its joined section texts
    validation,     \* what validate_article returned last (or NoValidation)
    earlier,        \* the validation before the latest word was added, and the word
    \* ---- the report passes over the deduplicated tree
    \*      (validate_content_quality.py, create_deduplicated_catalog.py)
    dd_dir,         \* whether DEDUPLICATED_DIR/metadata exists
    dd_meta,        \* DEDUPLICATED_DIR/metadata: id -> the file <id>.json (or NoArticle)
    dd_ft,          \* DEDUPLICATED_DIR/fulltext: the pmc ids that have an <id>.xml
    vreport,        \* REPORT_DIR/content_validation_report.json (or NoVReport)
    vstatus,        \* generate_validation_report: "idle" | "returned" | "done" | "crashed"
    catalog,        \* REPORT_DIR/deduplicated_catalog.csv: its rows (or NoCatalog)
    cstatus         \* the catalog's main: "idle" | "returned" | "done" | "crashed"

dedupVars == <<files, out_meta, out_ft, written, report, dedup_status, runs,
               write_errors>>
rateVars == <<now, last_request_time, request_interval, rl_log>>
storeVars == <<collector, tree_meta, tree_ft, saved, saves>>
driverVars == <<batch_size, src_pmc, pc, pmid_list, metadata_list, pmid_to_pmcid,
                idx, collected, fulltext_count, summary, op_events, iter_log,
                op_log>>
runVars == <<req_log, search_ok, failed_batches, omitted_ids, query_no, results, overall>>

reportVars == <<dd_dir, dd_meta, dd_ft, vreport, vstatus, catalog, cstatus>>

validatorVars == <<abstract, sections, validation, earlier, reportVars>>

vars == <<dedupVars, rateVars, storeVars, driverVars, runVars, validatorVars>>

(***************************************************************************)
(* Bounds of the model.                                                    *)
(***************************************************************************)
MaxPmid == 2        \* identifiers are 1..MaxPmid
MaxFiles == 3       \* metadata files over all input trees
MaxRuns == 2        \* runs of the deduplicator over the same inputs

MaxInterval == 2    \* the request interval is 1..MaxInterval ticks
MaxOvershoot == 1   \* a sleep or a call may take this much longer than asked
MaxIdle == 3        \* ticks the caller may spend between two calls
MaxCalls == 3       \* calls of the rate limiter observed

MaxResults == 3     \* identifiers a search returns (retmax)
MaxBatch == 2       \* batch_size is 1..MaxBatch
MaxSaves == 2       \* saves into one output root
MaxQueries == 2     \* queries of one run of a collection script
MaxWords == 4       \* words in the abstract and the full text of an article
MaxArticles == 3    \* metadata files in the deduplicated tree

PMIDs == 1..MaxPmid
\* The identifiers of the source, as the collectors see them.
IDS == 1..MaxResults

\* The identifiers in a list.
Ids(list) == { list[i] : i \in DOMAIN list }

(***************************************************************************)
(* Rate limiter: PubMedCollector._rate_limit (collect_pubmed_pmc.py) and   *)
(* the _rate_limit of the three Entrez collectors, which are the same.     *)
(***************************************************************************)

\* The clock when a collector is constructed: the epoch time, far more than
\* one interval after last_request_time = 0.
Epoch == MaxInterval + 1

\* _rate_limit stamping the time read before the sleep.
RateLimit_StampBeforeSleep(t, last, over) ==
    LET elapsed == t - last
        sleep_for == IF elapsed < request_interval THEN request_interval - elapsed ELSE 0
    IN  [now |-> t + sleep_for + over, last |-> t, slept |-> sleep_for]

\* One call of _rate_limit entered at time t with last_request_time = last:
\* the clock when it returns, the new last_request_time and the time asked
\* of time.sleep.  over: how much longer than asked the sleep and the two
\* clock reads took.
RateLimit(t, last, over) ==
    LET elapsed == t - last
        sleep_for == IF elapsed < request_interval THEN request_interval - elapsed ELSE 0
        returned == t + sleep_for + over
    IN  [now |-> returned, last |-> returned, slept |-> sleep_for]

\* A call of _rate_limit by the (single, sequential) caller.
rate_limit ==
    /\ Len(rl_log) < MaxCalls
    /\ \E over \in 0..MaxOvershoot :
         LET r == RateLimit(now, last_request_time, over) IN
         /\ now' = r.now
         /\ last_request_time' = r.last
         /\ rl_log' = Append(rl_log, [at |-> r.now, slept |-> r.slept])
    /\ UNCHANGED <<request_interval, dedupVars, storeVars, driverVars, runVars, validatorVars>>

\* Time the caller spends between two calls (the request, parsing, saving).
LastReturn == IF rl_log = <<>> THEN Epoch ELSE rl_log[Len(rl_log)].at

Tick ==
    /\ Len(rl_log) < MaxCalls
    /\ now - LastReturn < MaxIdle
    /\ now' = now + 1
    /\ UNCHANGED <<last_request_time, request_interval, rl_log, dedupVars, storeVars,
                   driverVars, runVars, validatorVars>>

\* __init__: last_request_time = 0, request_interval = 1.0 / REQUESTS_PER_SECOND.
NewCollector ==
    /\ now = Epoch
    /\ last_request_time = 0
    /\ request_interval \in 1..MaxInterval
    /\ rl_log = <<>>

\* No collector in this process.
IdleRate ==
    /\ now = Epoch
    /\ last_request_time = 0
    /\ request_interval = 1
    /\ rl_log = <<>>

(***************************************************************************)
(* Deduplicator: deduplicate_collections.py                                *)
(***************************************************************************)

\* COLLECTIONS: the two input trees, in dict order.
NumCollections == 2
COLLECTIONS == 1..NumCollections

\* A metadata file of an input tree.  pmid = 0: the file does not parse as
\* JSON or carries no 'pmid'.  pmc = 0: its metadata lists no articleid of
\* idtype 'pmc'.  ft: <pmc>.xml exists in the sibling fulltext directory.
\* The content of a file is identified by its place in the scan order.
FileKinds ==
    { [tree |-> t, pmid |-> p, pmc |-> c, ft |-> b] :
        t \in COLLECTIONS, p \in 0..MaxPmid, c \in 0..MaxPmid, b \in BOOLEAN }

WellFormedFile(f) ==
    /\ f.pmc \in {0, f.pmid}
    /\ f.ft => f.pmc # 0

\* find_all_metadata_files over COLLECTIONS.items(): the files of tree 1 in
\* walk order, then those of tree 2.
ScanOrders ==
    { s \in UNION { [1..n -> { f \in FileKinds : WellFormedFile(f) }] : n \in 0..MaxFiles } :
        \A i, j \in DOMAIN s : i < j => s[i].tree <= s[j].tree }

find_all_metadata_files(t) == { k \in DOMAIN files : files[k].tree = t }

\* '' (here 0) for a file that does not parse or has no pmid.
\* A reader that files what it cannot parse under identifier 1.
extract_pmid_from_metadata_Unknown(k) == IF files[k].pmid = 0 THEN 1 ELSE files[k].pmid

extract_pmid_from_metadata(k) == files[k].pmid

\* The path of the xml file beside metadata file k, or None (0).
find_fulltext_file(pmid, k) ==
    IF files[k].pmc # 0 /\ files[k].ft THEN k ELSE 0

NoRec == [src |-> 0, appeared_in_iterations |-> <<>>, num_iterations |-> 0,
          is_duplicate |-> FALSE]
NoReport == [total_articles_found |-> -1, unique_articles |-> -1,
             duplicate_instances |-> -1, articles_with_fulltext |-> -1]

EmptyScan ==
    [sources |-> [p \in PMIDs |-> <<>>],
     metadata |-> [p \in PMIDs |-> 0],
     fulltext |-> [p \in PMIDs |-> 0],
     order |-> <<>>]

\* ScanFile with the first-occurrence test dropped: the last file wins.
ScanFile_LastWins(acc, k) ==
    LET pmid == extract_pmid_from_metadata(k) IN
    IF pmid = 0 THEN acc
    ELSE [acc EXCEPT !.sources[pmid] = Append(@, <<files[k].tree, k>>),
                     !.metadata[pmid] = k,
                     !.fulltext[pmid] = find_fulltext_file(pmid, k),
                     !.order = IF acc.metadata[pmid] # 0 THEN @ ELSE Append(@, pmid)]

\* One iteration of the scan loop over a metadata file.
ScanFile(acc, k) ==
    LET pmid == extract_pmid_from_metadata(k) IN
    IF pmid = 0 THEN acc
    ELSE LET a1 == [acc EXCEPT !.sources[pmid] = Append(@, <<files[k].tree, k>>)] IN
         IF acc.metadata[pmid] # 0 THEN a1
         ELSE [a1 EXCEPT !.metadata[pmid] = k,
                         !.fulltext[pmid] = find_fulltext_file(pmid, k),
                         !.order = Append(@, pmid)]

RECURSIVE ScanUpTo(_)
ScanUpTo(n) == IF n = 0 THEN EmptyScan ELSE ScanFile(ScanUpTo(n - 1), n)

\* The three maps after the scan of all collections.
Scan == ScanUpTo(Len(files))

\* data['deduplication_info'] of one identifier.
DedupInfo(sources) ==
    [appeared_in_iterations |-> [i \in DOMAIN sources |-> sources[i][1]],
     num_iterations |-> Len(sources),
     is_duplicate |-> Len(sources) > 1]

\* The record written to metadata_out/<pmid>.json: the first file's content
\* plus the deduplication info.
OutRecord(sc, pmid) ==
    LET info == DedupInfo(sc.sources[pmid]) IN
    [src |-> sc.metadata[pmid],
     appeared_in_iterations |-> info.appeared_in_iterations,
     num_iterations |-> info.num_iterations,
     is_duplicate |-> info.is_duplicate]

RECURSIVE OccurrencesUpTo(_)
OccurrencesUpTo(n) ==
    IF n = 0 THEN <<>>
    ELSE IF files[n].pmid = 0 THEN OccurrencesUpTo(n - 1)
         ELSE Append(OccurrencesUpTo(n - 1), files[n].pmid)

\* CopyOrder looping over every occurrence instead of every unique pmid.
CopyOrder_PerFile(sc) == OccurrencesUpTo(Len(files))

\* The pmids the copy loop writes, in the order of pmid_to_metadata.items().
CopyOrder(sc) == sc.order

\* CopyMeta merging into a record the output tree already holds.
RECURSIVE CopyMeta_Merge(_, _, _)
CopyMeta_Merge(sc, todo, meta) ==
    IF todo = <<>> THEN meta
    ELSE LET pmid == Head(todo)
             new == OutRecord(sc, pmid)
             old == meta[pmid]
         IN  CopyMeta_Merge(sc, Tail(todo),
                 [meta EXCEPT ![pmid] =
                     IF old = NoRec THEN new
                     ELSE [new EXCEPT !.appeared_in_iterations = old.appeared_in_iterations \o @,
                                      !.num_iterations = old.num_iterations + @,
                                      !.is_duplicate = TRUE]])

RECURSIVE CopyMeta(_, _, _)
CopyMeta(sc, todo, meta) ==
    IF todo = <<>> THEN meta
    ELSE CopyMeta(sc, Tail(todo), [meta EXCEPT ![Head(todo)] = OutRecord(sc, Head(todo))])

RECURSIVE CopyFulltext(_, _, _)
CopyFulltext(sc, todo, ft) ==
    IF todo = <<>> THEN ft
    ELSE LET pmid == Head(todo)
             fulltext_file == sc.fulltext[pmid]
             pmc_id == IF fulltext_file = 0 THEN 0 ELSE files[fulltext_file].pmc
         IN  CopyFulltext(sc, Tail(todo),
                 IF fulltext_file = 0 THEN ft ELSE [ft EXCEPT ![pmc_id] = fulltext_file])

RECURSIVE TotalFound(_)
TotalFound(t) ==
    IF t = 0 THEN 0 ELSE TotalFound(t - 1) + Cardinality(find_all_metadata_files(t))

\* The statistics of the report (lines 137-140 and 238-246).
DedupReport(sc) ==
    LET total_articles_found == TotalFound(NumCollections)
        unique_articles == Cardinality({ p \in PMIDs : sc.metadata[p] # 0 })
    IN  [total_articles_found |-> total_articles_found,
         unique_articles |-> unique_articles,
         duplicate_instances |-> total_articles_found - unique_articles,
         articles_with_fulltext |-> Cardinality({ p \in PMIDs : sc.fulltext[p] # 0 })]

\* A run that moves each full-text file into the output tree instead of
\* copying it.
deduplicate_collections_Move ==
    /\ runs < MaxRuns
    /\ runs' = runs + 1
    /\ write_errors' = 0
    /\ LET sc == Scan IN
       /\ DedupReport(sc).unique_articles # 0
       /\ dedup_status' = "done"
       /\ out_meta' = CopyMeta(sc, CopyOrder(sc), out_meta)
       /\ out_ft' = CopyFulltext(sc, CopyOrder(sc), out_ft)
       /\ written' = CopyOrder(sc)
       /\ report' = DedupReport(sc)
       /\ files' = [k \in DOMAIN files |->
                       IF \E p \in PMIDs : sc.fulltext[p] = k
                       THEN [files[k] EXCEPT !.ft = FALSE] ELSE files[k]]
    /\ UNCHANGED <<rateVars, storeVars, driverVars, runVars, validatorVars>>

\* One run of deduplicate_collections().  With no identifier found the
\* coverage percentage divides by zero before anything is written.
deduplicate_collections ==
    /\ runs < MaxRuns
    /\ runs' = runs + 1
    /\ write_errors' = 0
    /\ LET sc == Scan IN
       IF DedupReport(sc).unique_articles = 0
       THEN /\ dedup_status' = "crashed"
            /\ written' = <<>>
            /\ report' = NoReport
            /\ UNCHANGED <<out_meta, out_ft>>
       ELSE /\ dedup_status' = "done"
            /\ out_meta' = CopyMeta(sc, CopyOrder(sc), out_meta)
            /\ out_ft' = CopyFulltext(sc, CopyOrder(sc), out_ft)
            /\ written' = CopyOrder(sc)
            /\ report' = DedupReport(sc)
    /\ UNCHANGED <<files, rateVars, storeVars, driverVars, runVars, validatorVars>>

\* The pmids of the copy loop apart from those in 'skip'.
Without(todo, skip) == SelectSeq(todo, LAMBDA p : p \notin skip)

\* One run of deduplicate_collections() on a filesystem that fails: the
\* write of metadata_out/<pmid>.json raises for the pmids in wfail, and
\* shutil.copy2 raises for those in cfail.  Both are inside try/except
\* Exception: the first prints and continues with the next pmid, the second
\* prints; the run goes on to the report.
deduplicate_collections_write_error ==
    /\ runs < MaxRuns
    /\ runs' = runs + 1
    /\ LET sc == Scan IN
       /\ DedupReport(sc).unique_articles # 0
       /\ \E wfail \in SUBSET Ids(CopyOrder(sc)) :
          \E cfail \in SUBSET { p \in Ids(CopyOrder(sc)) \ wfail : sc.fulltext[p] # 0 } :
            /\ wfail \cup cfail # {}
            /\ write_errors' = Cardinality(wfail) + Cardinality(cfail)
            /\ out_meta' = CopyMeta(sc, Without(CopyOrder(sc), wfail), out_meta)
            /\ out_ft' = CopyFulltext(sc, Without(CopyOrder(sc), wfail \cup cfail), out_ft)
            /\ written' = Without(CopyOrder(sc), wfail)
       /\ dedup_status' = "done"
       /\ report' = DedupReport(sc)
    /\ UNCHANGED <<files, rateVars, storeVars, driverVars, runVars, validatorVars>>

\* A record left in OUTPUT_DIR by an earlier run over other inputs.
StaleRec == [src |-> 0, appeared_in_iterations |-> <<1>>, num_iterations |-> 1,
             is_duplicate |-> FALSE]

\* The deduplicator before it is started, over empty trees.
IdleDedup ==
    /\ files = <<>>
    /\ out_meta = [p \in PMIDs |-> NoRec]
    /\ out_ft = [p \in PMIDs |-> 0]
    /\ written = <<>>
    /\ report = NoReport
    /\ dedup_status = "idle"
    /\ runs = 0
    /\ write_errors = 0

\* The input trees and the output tree when the deduplicator is started.
StartDedup ==
    /\ files \in ScanOrders
    /\ out_meta \in { [p \in PMIDs |-> NoRec],
                      [p \in PMIDs |-> IF p = 1 THEN StaleRec ELSE NoRec] }
    /\ out_ft = [p \in PMIDs |-> 0]
    /\ written = <<>>
    /\ report = NoReport
    /\ dedup_status = "idle"
    /\ runs = 0
    /\ write_errors = 0

(***************************************************************************)
(* Article store: save_article of the class collectors                     *)
(* (collect_symptom_based_guidelines.py and its copies) and                *)
(* save_article_data of collect_pubmed_pmc.py.                             *)
(***************************************************************************)

\* A metadata summary as the source returns it: its own uid and the PMC id
\* among its articleids (0: none).  An article's PMC id is written with the
\* article's number.
Metas == { [uid |-> u, pmc |-> c] : u \in IDS, c \in {0} \cup IDS }
SourceMetas == { m \in Metas : m.pmc \in {0, m.uid} }

\* What fetch_fulltext / fetch_full_text_xml returns: None (-1), the empty
\* string (0), or the body the source serves for PMC id c (c).
None == -1
Bodies == {None, 0} \cup IDS
Truthy(x) == x # None /\ x # 0

EmptyDir == [n \in {} |-> 0]

\* A write that keeps a file that is already there.
WriteFile_KeepExisting(dir, name, content) ==
    [n \in DOMAIN dir \cup {name} |-> IF n \in DOMAIN dir THEN dir[n] ELSE content]

\* open(name, 'w') and write: the file is created or replaced.
WriteFile(dir, name, content) ==
    [n \in DOMAIN dir \cup {name} |-> IF n = name THEN content ELSE dir[n]]

\* f"{pmid}.json"
PlainName(pmid) == [prefix |-> "", id |-> pmid, ext |-> ".json"]
\* f"article_{pmid}.json"
ArticleName(pmid) == [prefix |-> "article_", id |-> pmid, ext |-> ".json"]

\* The metadata file name a collector's store uses.
MetaFileName(c, pmid) == IF c = "entrez" THEN PlainName(pmid) ELSE ArticleName(pmid)

\* A metadata file that holds the summary alone, without the 'pmid' key.
ArticleContent_NoPmid(pmid, metadata) == [pmid |-> None, pmcid |-> None, metadata |-> metadata]

\* json.dump({'pmid': pmid, 'metadata': metadata}); pmcid = None: no such key.
ArticleContent(pmid, metadata) == [pmid |-> pmid, pmcid |-> None, metadata |-> metadata]

\* article_data of the function drivers; pmcid = 0: null.
ArticleData(pmid, pmcid, metadata) == [pmid |-> pmid, pmcid |-> pmcid, metadata |-> metadata]

\* save_article(pmid, metadata, fulltext, output_dir): the two directories
\* after it.
save_article(meta_dir, ft_dir, pmid, metadata, fulltext) ==
    LET pmc_id == metadata.pmc IN
    [meta |-> WriteFile(meta_dir, PlainName(pmid), ArticleContent(pmid, metadata)),
     ft |-> IF Truthy(fulltext) /\ pmc_id # 0
            THEN WriteFile(ft_dir, pmc_id, fulltext)
            ELSE ft_dir]

\* save_article_data(article_data, metadata_dir): the metadata directory
\* after it.
save_article_data(meta_dir, article_data) ==
    WriteFile(meta_dir, ArticleName(article_data.pmid), article_data)

\* json.load of a metadata file and data.get('pmid', ''), as the readers of
\* the trees do it: the identifier ('' is None) and the summary read back.
ReadArticle(dir, name) ==
    [pmid |-> IF dir[name].pmid = None THEN None ELSE dir[name].pmid,
     metadata |-> dir[name].metadata]

\* A save of the class collectors' store, with any arguments.
StoreSaveArticle ==
    /\ pc = "idle"
    /\ collector = "entrez"
    /\ saves < MaxSaves
    /\ \E pmid \in IDS, metadata \in SourceMetas : \E fulltext \in {None, 0, pmid} :
         LET t == save_article(tree_meta, tree_ft, pmid, metadata, fulltext) IN
         /\ tree_meta' = t.meta
         /\ tree_ft' = t.ft
         /\ saved' = Append(saved, ArticleContent(pmid, metadata))
    /\ saves' = saves + 1
    /\ UNCHANGED <<collector, dedupVars, rateVars, driverVars, runVars, validatorVars>>

\* A save of the function drivers' store, with any arguments.
StoreSaveArticleData ==
    /\ pc = "idle"
    /\ collector = "pubmed"
    /\ saves < MaxSaves
    /\ \E pmid \in IDS, metadata \in SourceMetas : \E pmcid \in {0, metadata.pmc} :
         LET article_data == ArticleData(pmid, pmcid, metadata) IN
         /\ tree_meta' = save_article_data(tree_meta, article_data)
         /\ saved' = Append(saved, article_data)
    /\ saves' = saves + 1
    /\ UNCHANGED <<collector, tree_ft, dedupVars, rateVars, driverVars, runVars, validatorVars>>

\* An output root nothing was saved into.
EmptyStore ==
    /\ tree_meta = EmptyDir
    /\ tree_ft = EmptyDir
    /\ saved = <<>>
    /\ saves = 0

IdleStore == collector = "entrez" /\ EmptyStore

StartStore == collector \in {"pubmed", "entrez"} /\ EmptyStore

(***************************************************************************)
(* API client: search_pubmed, fetch_article_metadata / fetch_metadata_batch*)
(* and fetch_full_text_xml / fetch_fulltext of PubMedCollector             *)
(* (collect_pubmed_pmc.py) and of the class collectors                     *)
(* (collect_mesh_optimized_guidelines.py and its copies).                  *)
(***************************************************************************)

\* What an operation logs: a call of _rate_limit, an outbound request.
RlEvent == [kind |-> "rl", op |-> "", ids |-> <<>>]
ReqEvent(op, ids) == [kind |-> "req", op |-> op, ids |-> ids]

CallsIn(events) == Cardinality({ i \in DOMAIN events : events[i].kind = "rl" })

\* The clock and last_request_time after k calls of _rate_limit.
RECURSIVE RateAfter(_, _, _)
RateAfter(t, last, k) ==
    IF k = 0 THEN [now |-> t, last |-> last]
    ELSE LET r == RateLimit(t, last, 0) IN RateAfter(r.now, r.last, k - 1)

\* The summary the source holds for pmid p.
Meta(p) == [uid |-> p, pmc |-> IF p \in src_pmc THEN p ELSE 0]

\* The identifiers a search returns, numbered in the order returned.
IdList(n) == [i \in 1..n |-> i]

\* A search that asks again when its request failed.
search_pubmed_Retry(ok, n) ==
    [ids |-> IF ok THEN IdList(n) ELSE <<>>,
     events |-> IF ok THEN <<RlEvent, ReqEvent("esearch", <<>>)>>
                ELSE <<RlEvent, ReqEvent("esearch", <<>>), RlEvent, ReqEvent("esearch", <<>>)>>]

\* search_pubmed: one _rate_limit, one esearch request; [] on any exception.
search_pubmed(ok, n) ==
    [ids |-> IF ok THEN IdList(n) ELSE <<>>,
     events |-> <<RlEvent, ReqEvent("esearch", <<>>)>>]

\* pmid_list[i:i + batch_size] for i in range(0, len(pmid_list), batch_size)
RECURSIVE Chunk(_, _)
Chunk(list, size) ==
    IF list = <<>> THEN <<>>
    ELSE IF Len(list) <= size THEN <<list>>
    ELSE <<SubSeq(list, 1, size)>> \o Chunk(SubSeq(list, size + 1, Len(list)), size)

\* A response read so that each summary is appended twice.
RECURSIVE BatchResult_Twice(_, _)
BatchResult_Twice(batch, omitted) ==
    IF batch = <<>> THEN <<>>
    ELSE (IF Head(batch) \in omitted THEN <<>> ELSE <<Meta(Head(batch)), Meta(Head(batch))>>)
         \o BatchResult_Twice(Tail(batch), omitted)

\* [result[pmid] for pmid in batch if pmid in result]
RECURSIVE BatchResult(_, _)
BatchResult(batch, omitted) ==
    IF batch = <<>> THEN <<>>
    ELSE (IF Head(batch) \in omitted THEN <<>> ELSE <<Meta(Head(batch))>>)
         \o BatchResult(Tail(batch), omitted)

\* A loop over the batches that gives up at the first request that raises.
RECURSIVE FetchFrom_AbortOnFailure(_, _, _, _)
FetchFrom_AbortOnFailure(batches, j, failed, omitted) ==
    IF j > Len(batches) THEN [metadata |-> <<>>, events |-> <<>>]
    ELSE IF j \in failed
    THEN [metadata |-> <<>>, events |-> <<RlEvent, ReqEvent("esummary", batches[j])>>]
    ELSE LET rest == FetchFrom_AbortOnFailure(batches, j + 1, failed, omitted) IN
         [metadata |-> BatchResult(batches[j], omitted) \o rest.metadata,
          events |-> <<RlEvent, ReqEvent("esummary", batches[j])>> \o rest.events]

\* The loop of fetch_metadata_batch from batch j on.  failed: the batches
\* whose request raises; omitted: the ids the source leaves out of 'result'.
RECURSIVE FetchFrom(_, _, _, _)
FetchFrom(batches, j, failed, omitted) ==
    IF j > Len(batches) THEN [metadata |-> <<>>, events |-> <<>>]
    ELSE LET rest == FetchFrom(batches, j + 1, failed, omitted) IN
         [metadata |-> (IF j \in failed THEN <<>> ELSE BatchResult(batches[j], omitted))
                       \o rest.metadata,
          events |-> <<RlEvent, ReqEvent("esummary", batches[j])>> \o rest.events]

\* fetch_metadata_batch with _rate_limit called once, before the loop.
fetch_metadata_batch_LimitOnce(list, size, failed, omitted) ==
    LET r == FetchFrom(Chunk(list, size), 1, failed, omitted) IN
    [metadata |-> r.metadata,
     events |-> IF list = <<>> THEN <<>>
                ELSE <<RlEvent>> \o SelectSeq(r.events, LAMBDA e : e.kind = "req")]

\* fetch_metadata_batch(pmid_list, batch_size) of the class collectors.
fetch_metadata_batch(list, size, failed, omitted) ==
    FetchFrom(Chunk(list, size), 1, failed, omitted)

\* PubMedCollector.fetch_article_metadata(pmid_list): the whole list in one
\* request; nothing at all for an empty list.
fetch_article_metadata(list, failed, omitted) ==
    IF list = <<>> THEN [metadata |-> <<>>, events |-> <<>>]
    ELSE FetchFrom(<<list>>, 1, failed, omitted)

\* The outcomes of the full-text request: 200 with a body, 200 with an
\* empty body, another status below 400 with a body, a status of 400 or
\* more, an exception (timeout, connection).
FetchOutcomes == {"ok", "empty", "non200", "http_error", "exception"}

\* A fetch that hands back the body whatever the status.
fetch_fulltext_AnyStatus(pmc_id, outcome) ==
    [body |-> CASE outcome = "empty" -> 0
                [] outcome = "exception" -> None
                [] OTHER -> pmc_id,
     events |-> <<RlEvent, ReqEvent("efetch", <<pmc_id>>)>>]

\* A fetch that asks a second time when the first request did not return 200.
fetch_fulltext_Retry(pmc_id, outcome) ==
    [body |-> CASE outcome = "ok" -> pmc_id
                [] outcome = "empty" -> 0
                [] OTHER -> None,
     events |-> IF outcome \in {"ok", "empty"}
                THEN <<RlEvent, ReqEvent("efetch", <<pmc_id>>)>>
                ELSE <<RlEvent, ReqEvent("efetch", <<pmc_id>>),
                       RlEvent, ReqEvent("efetch", <<pmc_id>>)>>]

\* fetch_fulltext(pmc_id) of the class collectors: one _rate_limit, one
\* request; the body if status_code == 200, None otherwise.
fetch_fulltext(pmc_id, outcome) ==
    [body |-> CASE outcome = "ok" -> pmc_id
                [] outcome = "empty" -> 0
                [] OTHER -> None,
     events |-> <<RlEvent, ReqEvent("efetch", <<pmc_id>>)>>]

\* PubMedCollector.fetch_full_text_xml(pmc_id): one _rate_limit, one request;
\* the body unless raise_for_status (400 and above) or the request raises.
fetch_full_text_xml(pmc_id, outcome) ==
    [body |-> CASE outcome \in {"ok", "non200"} -> pmc_id
                [] outcome = "empty" -> 0
                [] OTHER -> None,
     events |-> <<RlEvent, ReqEvent("efetch", <<pmc_id>>)>>]

(***************************************************************************)
(* Collection driver of one query: collect_category / collect_for_keyword  *)
(* of the class collectors, collect_pilot_dataset and the query loops of   *)
(* collect_clinical_content / collect_clinical_guidelines.                 *)
(***************************************************************************)

ZipLen == IF Len(pmid_list) < Len(metadata_list) THEN Len(pmid_list) ELSE Len(metadata_list)

\* extract_pmc_ids(metadata_list): keyed by each summary's own uid.
extract_pmc_ids(mlist) ==
    [p \in IDS |->
        IF \E i \in DOMAIN mlist : mlist[i].uid = p /\ mlist[i].pmc # 0
        THEN p ELSE 0]

\* The function drivers' loop over zip(pmid_list, metadata_list): keyed by
\* the pmid at the same position.
ZipPmcIds(plist, mlist) ==
    [p \in IDS |->
        LET at == { i \in DOMAIN plist \cap DOMAIN mlist : plist[i] = p /\ mlist[i].pmc # 0 } IN
        IF at = {} THEN 0 ELSE mlist[CHOOSE i \in at : TRUE].pmc]

NoSummary == [metadata_collected |-> -1, fulltext_collected |-> -1, total_found |-> -1]

\* The driver leaves the rate limiter's log and the deduplicator alone.
DriverFrame == UNCHANGED <<request_interval, rl_log, dedupVars, collector,
                           batch_size, src_pmc, query_no, results, overall,
                           validatorVars>>

\* The outbound requests among the events of an operation.
Requests(events) == SelectSeq(events, LAMBDA e : e.kind = "req")

Clock(events) ==
    LET r == RateAfter(now, last_request_time, CallsIn(events)) IN
    /\ now' = r.now
    /\ last_request_time' = r.last

\* An entry of op_log.
Op(name, pmid) == [op |-> name, pmid |-> pmid]

\* Save-first order in every driver: the metadata is stored, then the full
\* text is asked for.
RecordOps_SaveFirst(coll, pmid, pmc_id) ==
    <<Op("save", pmid)>> \o (IF pmc_id = 0 THEN <<>> ELSE <<Op("fetch_fulltext", pmid)>>)

\* The operations of one iteration of the record loop, in program order.
\* The class collectors hand the fetched body to save_article; the function
\* drivers call save_article_data first and fetch the full text after it.
RecordOps(coll, pmid, pmc_id) ==
    IF coll = "entrez"
    THEN (IF pmc_id = 0 THEN <<>> ELSE <<Op("fetch_fulltext", pmid)>>) \o <<Op("save", pmid)>>
    ELSE <<Op("save", pmid)>> \o (IF pmc_id = 0 THEN <<>> ELSE <<Op("fetch_fulltext", pmid)>>)

\* Search of the query.  With no identifier the query ends: the class
\* collectors return a short result, collect_pilot_dataset returns, the
\* query loops 'continue'; none writes a summary.
Search ==
    /\ pc = "search"
    /\ \E ok \in BOOLEAN, n \in 0..MaxResults :
         LET r == search_pubmed(ok, n) IN
         /\ pmid_list' = r.ids
         /\ op_events' = r.events
         /\ Clock(r.events)
         /\ pc' = IF r.ids = <<>> THEN "done" ELSE "metadata"
         /\ search_ok' = ok
         /\ req_log' = req_log \o Requests(r.events)
    /\ op_log' = Append(op_log, Op("search", 0))
    /\ UNCHANGED <<metadata_list, pmid_to_pmcid, idx, collected, fulltext_count,
                   summary, iter_log, tree_meta, tree_ft, saved, saves,
                   failed_batches, omitted_ids>>
    /\ DriverFrame

\* The esummary requests the metadata fetch of the query makes.
NumRequests ==
    IF collector = "entrez" THEN Len(Chunk(pmid_list, batch_size)) ELSE 1

\* Metadata of the identifiers found, then the PMC ids of the summaries.
FetchMetadata ==
    /\ pc = "metadata"
    /\ \E failed \in SUBSET (1..NumRequests), omitted \in SUBSET Ids(pmid_list) :
         LET r == IF collector = "entrez"
                  THEN fetch_metadata_batch(pmid_list, batch_size, failed, omitted)
                  ELSE fetch_article_metadata(pmid_list, failed, omitted)
         IN
         /\ metadata_list' = r.metadata
         /\ pmid_to_pmcid' = IF collector = "entrez"
                             THEN extract_pmc_ids(r.metadata)
                             ELSE ZipPmcIds(pmid_list, r.metadata)
         /\ op_events' = r.events
         /\ Clock(r.events)
         /\ failed_batches' = failed
         /\ omitted_ids' = omitted
         /\ req_log' = req_log \o Requests(r.events)
    /\ op_log' = Append(op_log, Op("fetch_metadata", 0))
    /\ pc' = "records"
    /\ UNCHANGED <<pmid_list, idx, collected, fulltext_count, summary, iter_log,
                   tree_meta, tree_ft, saved, saves, search_ok>>
    /\ DriverFrame

\* One iteration of the record loop of the class collectors: the full text
\* if the pmid has a PMC id, then save_article.
CollectRecordEntrez ==
    /\ pc = "records"
    /\ collector = "entrez"
    /\ idx < ZipLen
    /\ LET pmid == pmid_list[idx + 1]
           metadata == metadata_list[idx + 1]
           pmc_id == pmid_to_pmcid[pmid]
       IN  \E outcome \in IF pmc_id = 0 THEN {"none"} ELSE FetchOutcomes :
             LET f == IF pmc_id = 0 THEN [body |-> None, events |-> op_events]
                      ELSE fetch_fulltext(pmc_id, outcome)
                 t == save_article(tree_meta, tree_ft, pmid, metadata, f.body)
             IN
             /\ op_events' = f.events
             /\ Clock(IF pmc_id = 0 THEN <<>> ELSE f.events)
             /\ req_log' = IF pmc_id = 0 THEN req_log ELSE req_log \o Requests(f.events)
             /\ fulltext_count' = IF Truthy(f.body) THEN fulltext_count + 1 ELSE fulltext_count
             /\ tree_meta' = t.meta
             /\ tree_ft' = t.ft
             /\ saved' = Append(saved, ArticleContent(pmid, metadata))
             /\ iter_log' = Append(iter_log,
                    [pmid |-> pmid, uid |-> metadata.uid, meta_pmc |-> metadata.pmc,
                     asked |-> pmc_id, outcome |-> outcome, body |-> f.body,
                     wrote |-> IF Truthy(f.body) /\ metadata.pmc # 0
                               THEN metadata.pmc ELSE 0])
             /\ op_log' = op_log \o RecordOps(collector, pmid, pmc_id)
    /\ idx' = idx + 1
    /\ saves' = saves + 1
    /\ UNCHANGED <<pmid_list, metadata_list, pmid_to_pmcid, collected, summary, pc,
                   search_ok, failed_batches, omitted_ids>>
    /\ DriverFrame

\* One iteration of the record loop of the function drivers:
\* save_article_data, then the full text if the pmid has a PMC id.
CollectRecordPubmed ==
    /\ pc = "records"
    /\ collector = "pubmed"
    /\ idx < ZipLen
    /\ LET pmid == pmid_list[idx + 1]
           metadata == metadata_list[idx + 1]
           pmcid == pmid_to_pmcid[pmid]
           article_data == ArticleData(pmid, pmcid, metadata)
       IN  \E outcome \in IF pmcid = 0 THEN {"none"} ELSE FetchOutcomes :
             LET f == IF pmcid = 0 THEN [body |-> None, events |-> op_events]
                      ELSE fetch_full_text_xml(pmcid, outcome)
             IN
             /\ tree_meta' = save_article_data(tree_meta, article_data)
             /\ saved' = Append(saved, article_data)
             /\ collected' = collected + 1
             /\ op_events' = f.events
             /\ Clock(IF pmcid = 0 THEN <<>> ELSE f.events)
             /\ req_log' = IF pmcid = 0 THEN req_log ELSE req_log \o Requests(f.events)
             /\ tree_ft' = IF Truthy(f.body) THEN WriteFile(tree_ft, pmcid, f.body) ELSE tree_ft
             /\ fulltext_count' = IF Truthy(f.body) THEN fulltext_count + 1 ELSE fulltext_count
             /\ iter_log' = Append(iter_log,
                    [pmid |-> pmid, uid |-> metadata.uid, meta_pmc |-> metadata.pmc,
                     asked |-> pmcid, outcome |-> outcome, body |-> f.body,
                     wrote |-> IF Truthy(f.body) THEN pmcid ELSE 0])
             /\ op_log' = op_log \o RecordOps(collector, pmid, pmcid)
    /\ idx' = idx + 1
    /\ saves' = saves + 1
    /\ UNCHANGED <<pmid_list, metadata_list, pmid_to_pmcid, summary, pc,
                   search_ok, failed_batches, omitted_ids>>
    /\ DriverFrame

\* After the loop: the summary of the query.
SaveSummary ==
    /\ pc = "records"
    /\ idx = ZipLen
    /\ summary' = [metadata_collected |-> IF collector = "entrez"
                                          THEN Len(metadata_list) ELSE collected,
                   fulltext_collected |-> fulltext_count,
                   total_found |-> Len(pmid_list)]
    /\ pc' = "done"
    /\ op_log' = Append(op_log, Op("summary", 0))
    /\ UNCHANGED <<pmid_list, metadata_list, pmid_to_pmcid, idx, collected, fulltext_count,
                   op_events, iter_log, tree_meta, tree_ft, saved, saves, now,
                   last_request_time, req_log, search_ok, failed_batches, omitted_ids>>
    /\ DriverFrame

NoOverall == [total_metadata |-> -1, total_fulltext |-> -1, total_queries |-> -1,
              persisted |-> FALSE]

\* No query under way.
IdleDriver ==
    /\ batch_size = 1
    /\ src_pmc = {}
    /\ pc = "idle"
    /\ pmid_list = <<>>
    /\ metadata_list = <<>>
    /\ pmid_to_pmcid = [p \in IDS |-> 0]
    /\ idx = 0
    /\ collected = 0
    /\ fulltext_count = 0
    /\ summary = NoSummary
    /\ op_events = <<>>
    /\ iter_log = <<>>
    /\ op_log = <<>>
    /\ req_log = <<>>
    /\ search_ok = TRUE
    /\ failed_batches = {}
    /\ omitted_ids = {}
    /\ query_no = 1
    /\ results = <<>>
    /\ overall = NoOverall

\* A query about to be searched, against a source with any PMC coverage.
StartDriver ==
    /\ batch_size \in 1..MaxBatch
    /\ src_pmc \in SUBSET IDS
    /\ pc = "search"
    /\ pmid_list = <<>>
    /\ metadata_list = <<>>
    /\ pmid_to_pmcid = [p \in IDS |-> 0]
    /\ idx = 0
    /\ collected = 0
    /\ fulltext_count = 0
    /\ summary = NoSummary
    /\ op_events = <<>>
    /\ iter_log = <<>>
    /\ op_log = <<>>
    /\ req_log = <<>>
    /\ search_ok = TRUE
    /\ failed_batches = {}
    /\ omitted_ids = {}
    /\ query_no = 1
    /\ results = <<>>
    /\ overall = NoOverall


(***************************************************************************)
(* The run of a collection script over its queries: main of the class      *)
(* collectors (results list, totals, collection_summary.json) and the      *)
(* query loops of collect_clinical_guidelines / collect_clinical_content.  *)
(***************************************************************************)

\* The queries of a run (MESH_KEYWORDS, all_keywords, DIAGNOSTIC_CATEGORIES,
\* queries).
NumQueries == MaxQueries

\* What collect_category / collect_for_keyword returns when the search
\* found nothing: {'category': ..., 'metadata': 0, 'fulltext': 0}.
ShortResult == [metadata |-> 0, fulltext |-> 0]

\* What the query just done hands to the run: the summary, or the short
\* result when none was written.
QueryResult == IF summary = NoSummary THEN ShortResult ELSE summary

\* results.append(result) of the class collectors; the function drivers
\* 'continue' on an empty search and add nothing to their totals.
ResultsAfter ==
    IF collector = "entrez" THEN Append(results, QueryResult)
    ELSE IF summary = NoSummary THEN results
    ELSE Append(results, summary)

\* r['metadata_collected'] raises KeyError on the short result.
HasKeys(r) == r # ShortResult

\* sum(r['metadata_collected'] for r in results), total_collected += collected
RECURSIVE TotalMetadata(_)
TotalMetadata(rs) ==
    IF rs = <<>> THEN 0 ELSE Head(rs).metadata_collected + TotalMetadata(Tail(rs))

\* sum(r['fulltext_collected'] for r in results), total_fulltext += fulltext
RECURSIVE TotalFulltext(_)
TotalFulltext(rs) ==
    IF rs = <<>> THEN 0 ELSE Head(rs).fulltext_collected + TotalFulltext(Tail(rs))

\* The loop over the queries moves on to the next one, which has an output
\* directory of its own.
NextQuery ==
    /\ pc = "done"
    /\ query_no < NumQueries
    /\ query_no' = query_no + 1
    /\ results' = ResultsAfter
    /\ pc' = "search"
    /\ pmid_list' = <<>>
    /\ metadata_list' = <<>>
    /\ pmid_to_pmcid' = [p \in IDS |-> 0]
    /\ idx' = 0
    /\ collected' = 0
    /\ fulltext_count' = 0
    /\ summary' = NoSummary
    /\ op_events' = <<>>
    /\ iter_log' = <<>>
    /\ op_log' = <<>>
    /\ req_log' = <<>>
    /\ search_ok' = TRUE
    /\ failed_batches' = {}
    /\ omitted_ids' = {}
    /\ tree_meta' = EmptyDir
    /\ tree_ft' = EmptyDir
    /\ saved' = <<>>
    /\ saves' = 0
    /\ UNCHANGED <<overall, batch_size, src_pmc, collector, rateVars, dedupVars,
                   validatorVars>>

\* After the last query: the totals and the global summary.  The class
\* collectors index every result with 'metadata_collected' and divide by
\* the total (only the diagnostic script guards the division); the function
\* drivers print their totals.
FinishRun ==
    /\ pc = "done"
    /\ query_no = NumQueries
    /\ results' = ResultsAfter
    /\ \E guarded \in BOOLEAN :
         LET rs == ResultsAfter
             raises == /\ collector = "entrez"
                       /\ \/ \E i \in DOMAIN rs : ~HasKeys(rs[i])
                          \/ ~guarded /\ TotalMetadata(rs) = 0
         IN
         IF raises
         THEN /\ pc' = "crashed"
              /\ overall' = overall
         ELSE /\ pc' = "finished"
              /\ overall' = [total_metadata |-> TotalMetadata(rs),
                             total_fulltext |-> TotalFulltext(rs),
                             total_queries |-> IF collector = "entrez" THEN Len(rs)
                                               ELSE NumQueries,
                             persisted |-> collector = "entrez"]
    /\ UNCHANGED <<query_no, batch_size, src_pmc, pmid_list, metadata_list, pmid_to_pmcid,
                   idx, collected, fulltext_count, summary, op_events, iter_log,
                   op_log, req_log, search_ok, failed_batches, omitted_ids,
                   storeVars, rateVars, dedupVars, validatorVars>>

(***************************************************************************)
(* validate_content_quality.py: the keyword validation of one article.     *)
(***************************************************************************)

\* VALIDATION_KEYWORDS.keys(), in order.
Categories == <<"differential_diagnosis", "diagnostic_testing", "clinical_features",
                "diagnostic_criteria", "treatment_guidance">>

VALIDATION_KEYWORDS ==
    [differential_diagnosis |->
        <<"differential diagnosis", "differential", "ddx", "differential diagnostic",
          "alternative diagnoses", "diagnostic considerations", "diagnostic possibilities">>,
     diagnostic_testing |->
        <<"laboratory test", "diagnostic test", "laboratory diagnosis", "laboratory finding",
          "test result", "laboratory investigation", "diagnostic workup",
          "diagnostic evaluation", "sensitivity", "specificity">>,
     clinical_features |->
        <<"clinical feature", "clinical presentation", "clinical manifestation",
          "signs and symptoms", "presenting symptom", "presenting sign", "clinical finding",
          "physical examination">>,
     diagnostic_criteria |->
        <<"diagnostic criteria", "diagnostic criterion", "case definition",
          "clinical criteria", "laboratory criteria">>,
     treatment_guidance |->
        <<"treatment", "management", "therapy", "antimicrobial", "antibiotic", "antiviral",
          "antifungal">>]

\* The points of the categories in the score.
Points == [differential_diagnosis |-> 30, diagnostic_testing |-> 25,
           clinical_features |-> 20, diagnostic_criteria |-> 15, treatment_guidance |-> 10]

\* The words a text is made of here: phrases that match one category, a
\* capitalised phrase that matches two, and a plural that no keyword matches
\* as a whole word.
Words == {"differential diagnosis", "sensitivity", "clinical finding",
          "Diagnostic criteria and management", "treatment", "treatments"}

\* text.lower()
Lower(w) ==
    IF w = "Diagnostic criteria and management" THEN "diagnostic criteria and management"
    ELSE w

\* len(re.findall(r'\b' + re.escape(keyword) + r'\b', w)) for a lower-case
\* word w: the keyword must stand in w as whole words.
FindAll(keyword, w) ==
    IF w = keyword THEN 1
    ELSE IF w = "differential diagnosis" /\ keyword = "differential" THEN 1
    ELSE IF w = "diagnostic criteria and management"
            /\ keyword \in {"diagnostic criteria", "management"} THEN 1
    ELSE 0

\* The matches of a keyword in a text.
RECURSIVE CountIn(_, _)
CountIn(keyword, text) ==
    IF text = <<>> THEN 0
    ELSE FindAll(keyword, Lower(Head(text))) + CountIn(keyword, Tail(text))

\* The loop over the keywords of a category, from keyword k on.
RECURSIVE KeywordLoop(_, _, _)
KeywordLoop(text, keywords, k) ==
    IF k > Len(keywords) THEN [count |-> 0, keywords_found |-> <<>>]
    ELSE LET count == CountIn(keywords[k], text)
             rest == KeywordLoop(text, keywords, k + 1)
         IN  IF count > 0
             THEN [count |-> count + rest.count,
                   keywords_found |-> <<keywords[k]>> \o rest.keywords_found]
             ELSE rest

\* validate_text_content(text, category)
validate_text_content(text, category) ==
    IF text = <<>> THEN [found |-> FALSE, count |-> 0, keywords_found |-> <<>>]
    ELSE LET r == KeywordLoop(text, VALIDATION_KEYWORDS[category], 1) IN
         [found |-> Len(r.keywords_found) > 0,
          count |-> r.count,
          keywords_found |-> r.keywords_found]

\* No full-text file, and one with the joined section texts s; {} as a
\* validation.
NoFile == [exists |-> FALSE, text |-> <<>>]
FulltextFile(s) == [exists |-> TRUE, text |-> s]
NoChecks == [c \in {} |-> 0]

\* The validation of a text for every category.
CheckAll(text) ==
    [c \in Ids(Categories) |-> validate_text_content(text, c)]

\* source.get(category, {}).get('found', False)
Found(source, category) ==
    category \in DOMAIN source /\ source[category].found

\* A score that counts every match of a category.
RECURSIVE ScoreOf_ByCount(_, _)
ScoreOf_ByCount(source, k) ==
    IF k > Len(Categories) THEN 0
    ELSE (IF Found(source, Categories[k])
          THEN Points[Categories[k]] * source[Categories[k]].count ELSE 0)
         + ScoreOf_ByCount(source, k + 1)

\* sum(score_components) over the categories from the k-th on.
RECURSIVE ScoreOf(_, _)
ScoreOf(source, k) ==
    IF k > Len(Categories) THEN 0
    ELSE (IF Found(source, Categories[k]) THEN Points[Categories[k]] ELSE 0)
         + ScoreOf(source, k + 1)

\* A choice of source that takes the abstract whenever there is one.
ScoreSource_AbstractFirst(has_fulltext, abstract_validation, fulltext_validation) ==
    IF abstract_validation # NoChecks THEN abstract_validation ELSE fulltext_validation

\* source = fulltext_validation if has_fulltext else abstract_validation
ScoreSource(has_fulltext, abstract_validation, fulltext_validation) ==
    IF has_fulltext THEN fulltext_validation ELSE abstract_validation

\* validate_article(pmid, metadata_file, fulltext_file) for an article with
\* abstract a and full-text file f.
ValidateArticle(a, f) ==
    LET has_fulltext == f.exists
        abstract_validation == IF a # <<>> THEN CheckAll(a) ELSE NoChecks
        fulltext_validation == IF has_fulltext THEN CheckAll(f.text) ELSE NoChecks
        source == ScoreSource(has_fulltext, abstract_validation, fulltext_validation)
    IN  [has_fulltext |-> has_fulltext,
         abstract_validation |-> abstract_validation,
         fulltext_validation |-> fulltext_validation,
         overall_score |-> IF source # NoChecks THEN ScoreOf(source, 1) ELSE 0]

NoValidation == [has_fulltext |-> FALSE, abstract_validation |-> NoChecks,
                 fulltext_validation |-> NoChecks, overall_score |-> -1]
NoEarlier == [score |-> -1, found |-> {}, word |-> "", in_source |-> FALSE]

\* The categories a validation found in the source of its score.
FoundIn(v) ==
    LET source == ScoreSource(v.has_fulltext, v.abstract_validation, v.fulltext_validation)
    IN  { c \in Ids(Categories) : Found(source, c) }

\* The words of the article so far.
WordCount == Len(abstract) + Len(sections.text)

\* validate_article over the files as they are.
validate_article ==
    /\ validation = NoValidation
    /\ validation' = ValidateArticle(abstract, sections)
    /\ UNCHANGED <<abstract, sections, earlier>>
    /\ UNCHANGED <<dedupVars, rateVars, storeVars, driverVars, runVars, reportVars>>

\* The article changes between two validations: its abstract gains a word.
AddToAbstract ==
    /\ WordCount < MaxWords
    /\ validation # NoValidation
    /\ \E w \in Words :
         /\ abstract' = Append(abstract, w)
         /\ earlier' = [score |-> validation.overall_score,
                         found |-> FoundIn(validation),
                         word |-> w,
                         in_source |-> ~sections.exists]
    /\ validation' = NoValidation
    /\ UNCHANGED sections
    /\ UNCHANGED <<dedupVars, rateVars, storeVars, driverVars, runVars, reportVars>>

\* The article changes between two validations: its full text gains a word.
AddToFulltext ==
    /\ WordCount < MaxWords
    /\ validation # NoValidation
    /\ sections.exists
    /\ \E w \in Words :
         /\ sections' = FulltextFile(Append(sections.text, w))
         /\ earlier' = [score |-> validation.overall_score,
                         found |-> FoundIn(validation),
                         word |-> w,
                         in_source |-> TRUE]
    /\ validation' = NoValidation
    /\ UNCHANGED abstract
    /\ UNCHANGED <<dedupVars, rateVars, storeVars, driverVars, runVars, reportVars>>

\* No article under validation.
IdleArticle ==
    /\ abstract = <<>>
    /\ sections = NoFile
    /\ validation = NoValidation
    /\ earlier = NoEarlier

(***************************************************************************)
(* The report passes over the deduplicated tree:                           *)
(* generate_validation_report of validate_content_quality.py and main of   *)
(* create_deduplicated_catalog.py.                                         *)
(***************************************************************************)

ARTICLES == 1..MaxArticles

\* sample_size = min(100, total_articles): the first 100 files of the glob.
\* The model's trees hold at most MaxArticles files, so the cut is scaled
\* down to keep a sample smaller than the collection reachable.
SampleLimit == 2

\* <id>.json of the deduplicated tree: the PMC id its metadata lists (0:
\* none) and the overall_score validate_article computes from its content.
NoArticle == [exists |-> FALSE, pmc |-> 0, score |-> 0]
ArticleFiles ==
    { [exists |-> TRUE, pmc |-> c, score |-> s] : c \in 0..MaxArticles, s \in {0, 100} }

NoVReport == [sample_size |-> -1, total_articles |-> -1,
              articles_with_fulltext |-> -1, average_quality_score |-> -1,
              validations |-> {}]
NoCatalog == {}

\* metadata_dir.glob('*.json')
metadata_files == { i \in ARTICLES : dd_meta[i].exists }

\* The full-text file found for a metadata file: <pmc_id>.xml exists.
HasFulltextFile(i) == dd_meta[i].pmc # 0 /\ dd_meta[i].pmc \in dd_ft

RECURSIVE SumScores(_)
SumScores(s) ==
    IF s = {} THEN 0
    ELSE LET i == CHOOSE x \in s : TRUE IN dd_meta[i].score + SumScores(s \ {i})

\* The report written at the end of the pass over the sampled files; the
\* average is kept in tenths.
ValidationReport(sample) ==
    [sample_size |-> Cardinality(sample),
     total_articles |-> Cardinality(metadata_files),
     articles_with_fulltext |-> Cardinality({ i \in sample : HasFulltextFile(i) }),
     average_quality_score |-> (SumScores(sample) * 10) \div Cardinality(sample),
     validations |-> { [pmid |-> i, has_fulltext |-> HasFulltextFile(i),
                        overall_score |-> dd_meta[i].score] : i \in sample }]

\* The samples metadata_files[:sample_size] can be: glob yields the files
\* in directory order, which the script does not control.
Samples ==
    LET total_articles == Cardinality(metadata_files)
        sample_size == IF SampleLimit < total_articles THEN SampleLimit ELSE total_articles
    IN  { s \in SUBSET metadata_files : Cardinality(s) = sample_size }

\* A validation pass that removes each metadata file once it has scored it.
generate_validation_report_Consume ==
    /\ vstatus = "idle"
    /\ dd_dir
    /\ \E sample \in Samples :
         /\ sample # {}
         /\ vstatus' = "done"
         /\ vreport' = ValidationReport(sample)
         /\ dd_meta' = [i \in ARTICLES |-> IF i \in sample THEN NoArticle ELSE dd_meta[i]]
    /\ UNCHANGED <<dd_dir, dd_ft, catalog, cstatus>>
    /\ UNCHANGED <<abstract, sections, validation, earlier>>
    /\ UNCHANGED <<dedupVars, rateVars, storeVars, driverVars, runVars>>

\* generate_validation_report().  Without the metadata directory it prints
\* and returns; over a directory with no file the average divides by
\* len(validations) = 0 before the report is written.
generate_validation_report ==
    /\ vstatus = "idle"
    /\ IF ~dd_dir
       THEN vstatus' = "returned" /\ vreport' = NoVReport
       ELSE \E sample \in Samples :
              IF sample = {}
              THEN vstatus' = "crashed" /\ vreport' = NoVReport
              ELSE vstatus' = "done" /\ vreport' = ValidationReport(sample)
    /\ UNCHANGED <<dd_dir, dd_meta, dd_ft, catalog, cstatus>>
    /\ UNCHANGED <<abstract, sections, validation, earlier>>
    /\ UNCHANGED <<dedupVars, rateVars, storeVars, driverVars, runVars>>

\* extract_article_metadata: the catalog row of one file.
extract_article_metadata(i) ==
    [pmid |-> i, pmc_id |-> dd_meta[i].pmc,
     has_fulltext |-> HasFulltextFile(i)]

\* main() of create_deduplicated_catalog.py.  Over a directory with no file
\* the empty DataFrame has no 'publication_date' column and the sort raises
\* before anything is written.
catalog_main ==
    /\ cstatus = "idle"
    /\ IF ~dd_dir
       THEN cstatus' = "returned" /\ catalog' = NoCatalog
       ELSE IF metadata_files = {}
            THEN cstatus' = "crashed" /\ catalog' = NoCatalog
            ELSE /\ cstatus' = "done"
                 /\ catalog' = { extract_article_metadata(i) : i \in metadata_files }
    /\ UNCHANGED <<dd_dir, dd_meta, dd_ft, vreport, vstatus>>
    /\ UNCHANGED <<abstract, sections, validation, earlier>>
    /\ UNCHANGED <<dedupVars, rateVars, storeVars, driverVars, runVars>>

\* No deduplicated tree, no report pass run.
IdleReport ==
    /\ dd_dir = FALSE
    /\ dd_meta = [i \in ARTICLES |-> NoArticle]
    /\ dd_ft = {}
    /\ vreport = NoVReport
    /\ vstatus = "idle"
    /\ catalog = NoCatalog
    /\ cstatus = "idle"

\* The deduplicated tree before a report pass: what the deduplicator wrote.
\* It copies <pmc>.xml only beside the metadata file that lists the id.
StartReport ==
    /\ dd_dir \in BOOLEAN
    /\ dd_meta \in { m \in [ARTICLES -> {NoArticle} \cup ArticleFiles] :
                       \A i \in ARTICLES : m[i].pmc \in {0, i} }
    /\ ~dd_dir => metadata_files = {}
    /\ dd_ft \in SUBSET { i \in ARTICLES : dd_meta[i].pmc = i }
    /\ vreport = NoVReport
    /\ vstatus = "idle"
    /\ catalog = NoCatalog
    /\ cstatus = "idle"
\* Neither the validator nor the report passes at work.
IdleValidator == IdleArticle /\ IdleReport

\* An article about to be validated: no abstract yet, with or without a
\* full-text file (empty when it holds no section or does not parse).
StartValidator ==
    /\ abstract = <<>>
    /\ sections \in {NoFile, FulltextFile(<<>>)}
    /\ validation = NoValidation
    /\ earlier = NoEarlier
    /\ IdleReport

(***************************************************************************)
(* The specifications: one per script.                                     *)
(***************************************************************************)

InitDedup == StartDedup /\ IdleRate /\ IdleStore /\ IdleDriver /\ IdleValidator

NextDedup == deduplicate_collections

SpecDedup == InitDedup /\ [][NextDedup]_vars

InitDedupIO == InitDedup

NextDedupIO == deduplicate_collections \/ deduplicate_collections_write_error

SpecDedupIO == InitDedupIO /\ [][NextDedupIO]_vars

InitValidate == StartValidator /\ IdleDedup /\ IdleRate /\ IdleStore /\ IdleDriver

NextValidate == validate_article \/ AddToAbstract \/ AddToFulltext

SpecValidate == InitValidate /\ [][NextValidate]_vars

InitReport == StartReport /\ IdleArticle /\ IdleDedup /\ IdleRate /\ IdleStore /\ IdleDriver

NextReport == generate_validation_report \/ catalog_main

SpecReport == InitReport /\ [][NextReport]_vars

InitRate == NewCollector /\ IdleDedup /\ IdleStore /\ IdleDriver /\ IdleValidator

NextRate == rate_limit \/ Tick

SpecRate == InitRate /\ [][NextRate]_vars

InitStore == StartStore /\ IdleRate /\ IdleDedup /\ IdleDriver /\ IdleValidator

NextStore == StoreSaveArticle \/ StoreSaveArticleData

SpecStore == InitStore /\ [][NextStore]_vars

InitCollect == StartDriver /\ StartStore /\ IdleRate /\ IdleDedup /\ IdleValidator

NextCollect ==
    \/ Search
    \/ FetchMetadata
    \/ CollectRecordEntrez
    \/ CollectRecordPubmed
    \/ SaveSummary

SpecCollect == InitCollect /\ [][NextCollect]_vars

InitRun == InitCollect

NextRun == NextCollect \/ NextQuery \/ FinishRun

SpecRun == InitRun /\ [][NextRun]_vars

(***************************************************************************)
(* Properties of the deduplicator.                                         *)
(***************************************************************************)

\* The identifiers that occur in at least one input tree.
InputIds == { files[k].pmid : k \in DOMAIN files } \ {0}

FilesOf(p) == { k \in DOMAIN files : files[k].pmid = p }
TreesWith(p) == { files[k].tree : k \in FilesOf(p) }
FirstOf(S) == CHOOSE k \in S : \A j \in S : k <= j

\* C1: after a run the merged tree holds a metadata record for every
\* identifier of the input trees and for each the run wrote exactly one:
\* the number of records written is the number of distinct identifiers.
C1_OneRecordPerIdentifier ==
    dedup_status # "idle" =>
        /\ Len(written) = Cardinality(InputIds)
        /\ { written[i] : i \in DOMAIN written } = InputIds
        /\ dedup_status = "done" =>
              \A p \in InputIds :
                  /\ out_meta[p].src \in FilesOf(p)
                  /\ out_meta[p].num_iterations >= 1

C1_Witness ==
    /\ dedup_status = "done"
    /\ Cardinality(InputIds) = 2
    /\ \E p \in InputIds : Cardinality(TreesWith(p)) = 2

\* C2: the provenance count of every identifier equals the number of input
\* trees that contain it, and is_duplicate holds exactly when that count is
\* greater than 1, also when one tree holds the identifier several times.
C2_CountIsNumberOfTrees ==
    dedup_status = "done" =>
        \A p \in InputIds :
            /\ out_meta[p].num_iterations = Cardinality(TreesWith(p))
            /\ out_meta[p].is_duplicate = (Cardinality(TreesWith(p)) > 1)

\* C3: the record written for an identifier carries the metadata of the
\* first file with that identifier in scan order; no later file replaces it.
C3_FirstSeenWins ==
    dedup_status = "done" =>
        \A p \in InputIds : out_meta[p].src = FirstOf(FilesOf(p))

C3_Witness ==
    /\ dedup_status = "done"
    /\ \E p \in InputIds : Cardinality(FilesOf(p)) >= 2

\* C4: a run over the same inputs as the run before it leaves the merged
\* tree (metadata and full text) and the report as that run left them.
C4_Idempotent ==
    [][(runs >= 1 /\ runs' = runs + 1) =>
          /\ out_meta' = out_meta
          /\ out_ft' = out_ft
          /\ report' = report
          /\ dedup_status' = dedup_status]_vars

C4_Witness ==
    /\ runs = 2
    /\ dedup_status = "done"
    /\ \E p \in InputIds : Cardinality(FilesOf(p)) >= 2
    /\ \E p \in PMIDs : out_ft[p] # 0

\* C5: whenever some input file of an identifier has a full-text file, the
\* merged tree holds a full-text blob for it, taken from the first such
\* file, also when the first metadata file of the identifier has none.
C5_FulltextFromFirstTreeThatHasIt ==
    dedup_status = "done" =>
        \A p \in InputIds :
            LET withFt == { k \in FilesOf(p) : files[k].ft } IN
            withFt # {} => out_ft[p] = FirstOf(withFt)


(***************************************************************************)
(* Properties of the rate limiter.                                         *)
(***************************************************************************)

\* C6: two consecutive calls of the rate limiter of one collector return at
\* least request_interval apart, and the first call does not sleep.
C6_MinimumInterval ==
    /\ \A i \in 1..(Len(rl_log) - 1) : rl_log[i + 1].at - rl_log[i].at >= request_interval
    /\ rl_log # <<>> => rl_log[1].slept = 0

C6_Witness ==
    /\ Len(rl_log) = 3
    /\ rl_log[2].slept > 0
    /\ rl_log[3].slept = 0
    /\ request_interval = 2

\* Position of identifier x in a list without repetition.
Pos(list, x) == CHOOSE i \in DOMAIN list : list[i] = x

\* The esummary requests of the operation that ran last.
SummaryRequests == { i \in DOMAIN op_events : op_events[i].op = "esummary" }

\* C7: in every API client operation each outbound request is immediately
\* preceded by one call of the rate limiter of its own, and the limiter is
\* called for nothing else: one call per underlying request, batched or not.
C7_OneLimiterCallPerRequest ==
    \A i \in DOMAIN op_events :
        /\ op_events[i].kind = "req" => i > 1 /\ op_events[i - 1].kind = "rl"
        /\ op_events[i].kind = "rl" => i < Len(op_events) /\ op_events[i + 1].kind = "req"

\* A metadata fetch of the class collectors that took two batches.
C7_Witness ==
    /\ collector = "entrez"
    /\ pc = "records"
    /\ idx = 0
    /\ Cardinality(SummaryRequests) = 2

\* C8: no metadata request carries more than batch_size identifiers, and
\* the records returned are in the order of their identifiers in the input.
C8_BatchSizeAndOrder ==
    /\ \A i \in SummaryRequests : Len(op_events[i].ids) <= batch_size
    /\ \A i, j \in DOMAIN metadata_list :
          i < j => Pos(pmid_list, metadata_list[i].uid) < Pos(pmid_list, metadata_list[j].uid)

\* C9: a full-text file named by a PMC id is there only if the full text of
\* that PMC id was fetched with success and a non-empty body.
C9_FulltextOnlyAfterSuccessfulFetch ==
    \A c \in DOMAIN tree_ft :
        \E i \in DOMAIN iter_log : iter_log[i].asked = c /\ iter_log[i].outcome = "ok"

\* The identifiers saved so far, and the most recent save of one.
SavedIds == { saved[i].pmid : i \in DOMAIN saved }
LatestSave(p) ==
    saved[CHOOSE i \in DOMAIN saved :
            saved[i].pmid = p /\ \A j \in DOMAIN saved : saved[j].pmid = p => j <= i]

C11_RoundTrip ==
    \A n \in DOMAIN tree_meta :
        /\ ReadArticle(tree_meta, n).pmid = n.id
        /\ n = MetaFileName(collector, n.id)
        /\ ReadArticle(tree_meta, n).metadata = LatestSave(n.id).metadata

\* Two records saved under identifiers that are not the uid of the metadata
\* they were saved with: what is read back is the identifier of the save.
C11_Witness ==
    /\ Cardinality(DOMAIN tree_meta) = 2
    /\ \A n \in DOMAIN tree_meta :
          ReadArticle(tree_meta, n).pmid # ReadArticle(tree_meta, n).metadata.uid

\* C12: a run ends only after all its queries were processed and with the
\* global summary: a query whose search or metadata fetch failed does not
\* end it otherwise.
C12_RunReachesGlobalSummary ==
    pc \in {"finished", "crashed"} =>
        /\ query_no = NumQueries
        /\ pc = "finished"
        /\ overall # NoOverall

\* The requests of one kind the query has made so far.
RequestsOf(op) == { i \in DOMAIN req_log : req_log[i].op = op }

\* C13: the search of a query makes one request; when the request failed
\* the result is the empty list, and a query whose search result is empty,
\* for either reason, ends with that one request made, nothing fetched,
\* nothing saved and no summary written.
C13_FailedSearchIsEmptySearch ==
    /\ pc # "search" => Cardinality(RequestsOf("esearch")) = 1
    /\ ~search_ok => pmid_list = <<>>
    /\ (pc # "search" /\ pmid_list = <<>>) =>
          /\ pc = "done"
          /\ Len(req_log) = 1
          /\ metadata_list = <<>>
          /\ tree_meta = EmptyDir
          /\ tree_ft = EmptyDir
          /\ saved = <<>>
          /\ summary = NoSummary

\* A query whose esearch request failed.
C13_Witness ==
    /\ ~search_ok
    /\ pc = "done"
    /\ Len(req_log) = 1

\* The request that carries the identifier at position i of pmid_list.
BatchOf(i) == IF collector = "entrez" THEN ((i - 1) \div batch_size) + 1 ELSE 1

\* The positions of pmid_list whose request succeeded and whose identifier
\* the response held.
Returned ==
    { i \in DOMAIN pmid_list :
        BatchOf(i) \notin failed_batches /\ pmid_list[i] \notin omitted_ids }

\* C14: the metadata fetch returns exactly the records of the batches whose
\* request succeeded, a failed batch taking none of the others with it:
\* never more records than identifiers, fewer when a batch failed.
C14_FailedBatchSkipped ==
    (pc \in {"records", "done"} /\ pmid_list # <<>>) =>
        /\ Len(metadata_list) = Cardinality(Returned)
        /\ { metadata_list[j].uid : j \in DOMAIN metadata_list }
             = { pmid_list[i] : i \in Returned }
        /\ Len(metadata_list) <= Len(pmid_list)

\* The first of two batches failed, the records of the second came back.
C14_Witness ==
    /\ collector = "entrez"
    /\ pc = "records"
    /\ failed_batches = {1}
    /\ Cardinality(RequestsOf("esummary")) = 2
    /\ metadata_list # <<>>
    /\ Len(metadata_list) < Len(pmid_list)

\* What the two fetch functions are to return for an outcome of the
\* request for PMC id c, after the claim as stated: the body on 200 alone.
BodyOn200(c, outcome) ==
    CASE outcome = "ok" -> c
      [] outcome = "empty" -> 0
      [] OTHER -> None

\* What they return after their code: fetch_full_text_xml hands back the
\* body on every status raise_for_status lets through.
BodyExpected(c, outcome) ==
    IF collector = "pubmed" /\ outcome = "non200" THEN c ELSE BodyOn200(c, outcome)

\* The record loop goes on after every iteration, whatever its fetch did:
\* each record processed so far was saved, and a query that found something
\* ends only when every record of the zip was processed.
LoopNeverStops ==
    /\ Len(iter_log) = idx
    /\ Len(saved) = idx
    /\ (pc = "done" /\ pmid_list # <<>>) => idx = ZipLen /\ summary # NoSummary

\* C15 as stated: the full-text fetch returns the body on HTTP 200 and None
\* on every other status or exception, and the loop goes on after a failure.
C15_BodyOn200Only ==
    /\ \A i \in DOMAIN iter_log :
          iter_log[i].asked # 0 =>
              iter_log[i].body = BodyOn200(iter_log[i].asked, iter_log[i].outcome)
    /\ LoopNeverStops

\* C15: fetch_fulltext returns the body on HTTP 200 and None on every other
\* status or exception; fetch_full_text_xml returns the body on every status
\* below 400 and None on an error status or exception; the record loop goes
\* on after a failed fetch: every later record is still fetched and saved.
C15_FetchFailureIsNone ==
    /\ \A i \in DOMAIN iter_log :
          iter_log[i].asked # 0 =>
              iter_log[i].body = BodyExpected(iter_log[i].asked, iter_log[i].outcome)
    /\ LoopNeverStops

\* A failed full-text fetch followed by a record that was fetched and saved.
C15_Witness ==
    /\ Len(iter_log) >= 2
    /\ iter_log[1].outcome \in {"http_error", "exception"}
    /\ iter_log[1].body = None
    /\ iter_log[2].outcome = "ok"
    /\ iter_log[2].wrote # 0
    /\ Len(saved) = 2

\* C16: no run of the deduplicator completes normally after a write into
\* the output tree failed.
C16_WriteErrorEndsRun ==
    dedup_status = "done" => write_errors = 0

\* C17: nothing is requested twice: a query makes one search, asks for the
\* metadata of each identifier in one request only, and for each full text
\* once, also after a failure.
C17_NoRetry ==
    /\ Cardinality(RequestsOf("esearch")) <= 1
    /\ \A i, j \in DOMAIN req_log :
          (i < j /\ req_log[i].op = req_log[j].op) =>
              Ids(req_log[i].ids) \cap Ids(req_log[j].ids) = {}
    /\ Cardinality(RequestsOf("esummary")) <= NumRequests
    /\ Cardinality(RequestsOf("efetch")) <= idx

\* A query that is done after a metadata request and a full-text request
\* failed.
C17_Witness ==
    /\ pc = "done"
    /\ failed_batches # {}
    /\ \E i \in DOMAIN iter_log : iter_log[i].outcome \in {"http_error", "exception"}

\* The metadata files that do not parse, or hold no 'pmid'.
Malformed == { k \in DOMAIN files : files[k].pmid = 0 }

CategoriesOf(w) ==
    { c \in Ids(Categories) :
        \E k \in DOMAIN VALIDATION_KEYWORDS[c] :
            FindAll(VALIDATION_KEYWORDS[c][k], Lower(w)) > 0 }

\* The categories present in a text.
Present(text) == UNION { CategoriesOf(text[i]) : i \in DOMAIN text }

RECURSIVE SumPoints(_)
SumPoints(cats) ==
    IF cats = {} THEN 0
    ELSE LET c == CHOOSE x \in cats : TRUE IN Points[c] + SumPoints(cats \ {c})

\* C19: when the text the score is taken from gains a word, the score stays
\* as it was if the word matches only categories matched before, and it
\* rises by exactly the points of the categories the word matches for the
\* first time.
C19_PresenceNotFrequency ==
    (validation # NoValidation /\ earlier # NoEarlier /\ earlier.in_source) =>
        validation.overall_score
            = earlier.score + SumPoints(CategoriesOf(earlier.word) \ earlier.found)

\* A further occurrence of a category matched before, validated: the score
\* stays at 40.
C19_Witness ==
    /\ validation # NoValidation
    /\ earlier.in_source
    /\ earlier.word = "treatment"
    /\ earlier.found = {"treatment_guidance", "differential_diagnosis"}
    /\ validation.overall_score = 40

\* The text the score is to be taken from.
SourceText == IF sections.exists THEN sections.text ELSE abstract

\* C20: the score lies in 0..100 and is the sum of the points of the
\* categories present in one text, the joined full-text sections when the
\* full-text file exists and the abstract otherwise; an abstract matching
\* differential diagnosis and treatment guidance alone, with no full text,
\* scores 40.
C20_ScoreOfOneSource ==
    validation # NoValidation =>
        /\ validation.overall_score \in 0..100
        /\ validation.overall_score = SumPoints(Present(SourceText))
        /\ (~sections.exists
             /\ Present(abstract) = {"differential_diagnosis", "treatment_guidance"})
            => validation.overall_score = 40

\* The scenario: no full text, an abstract with "differential diagnosis" and
\* "treatment".
C20_Witness ==
    /\ ~sections.exists
    /\ abstract = <<"differential diagnosis", "treatment">>
    /\ validation.overall_score = 40

\* ---------------------------------------------------------------------
\* C21  The catalog pass and the validator pass are read-only over the
\* collection tree: across every step of either pass, over the whole
\* collection or over a sample of it, every metadata file and every
\* full-text file of the tree keeps its content, and none is added or
\* removed.
C21_ReportPassesReadOnly ==
    [][ /\ dd_dir' = dd_dir
        /\ dd_meta' = dd_meta
        /\ dd_ft' = dd_ft ]_vars

\* Both passes have run over a tree with full text, the validator over a
\* sample smaller than the collection.
C21_Witness ==
    /\ vstatus = "done"
    /\ cstatus = "done"
    /\ vreport.sample_size < vreport.total_articles
    /\ vreport.articles_with_fulltext > 0
    /\ \E r \in catalog : r.has_fulltext

\* ---------------------------------------------------------------------
\* The operations of the query in program order.
SearchThenMetadataThenSaves ==
    \A i \in DOMAIN op_log :
        /\ op_log[i].op = "fetch_metadata" => \E j \in 1..(i - 1) : op_log[j].op = "search"
        /\ op_log[i].op = "save" => \E j \in 1..(i - 1) : op_log[j].op = "fetch_metadata"

\* The save of every record with a secondary identifier comes after the
\* full-text fetch of that record.
FetchBeforeSave ==
    \A j \in DOMAIN op_log :
        op_log[j].op = "save" /\ pmid_to_pmcid[op_log[j].pmid] # 0
        => \E i \in 1..(j - 1) : op_log[i] = Op("fetch_fulltext", op_log[j].pmid)

\* The save of every record with a secondary identifier comes before the
\* full-text fetch of that record.
SaveBeforeFetch ==
    \A j \in DOMAIN op_log :
        op_log[j].op = "save" /\ pmid_to_pmcid[op_log[j].pmid] # 0
        => /\ \E i \in (j + 1)..Len(op_log) : op_log[i] = Op("fetch_fulltext", op_log[j].pmid)
           /\ \A i \in 1..(j - 1) : op_log[i] # Op("fetch_fulltext", op_log[j].pmid)

\* C22  In every query the search precedes the metadata fetch, which
\* precedes every save.  For a record with a secondary identifier the class
\* collectors (collect_category, collect_for_keyword) fetch the full text
\* before they save the record, while the function drivers
\* (collect_pilot_dataset and the query loops) save the record's metadata
\* first and fetch its full text afterwards.
C22_OrderPerDriver ==
    /\ SearchThenMetadataThenSaves
    /\ collector = "entrez" => FetchBeforeSave
    /\ collector = "pubmed" => SaveBeforeFetch

\* A function driver has saved two records and asked for the full text of
\* one of them after saving it.
C22_Witness ==
    /\ collector = "pubmed"
    /\ idx >= 2
    /\ \E i, j \in DOMAIN op_log :
         /\ i < j
         /\ op_log[i].op = "save"
         /\ op_log[j] = Op("fetch_fulltext", op_log[i].pmid)

\* C22 as stated: in every driver the full-text fetch of a record precedes
\* the save of that record.
C22_FetchBeforeSaveEverywhere ==
    /\ SearchThenMetadataThenSaves
    /\ FetchBeforeSave

\* ---------------------------------------------------------------------
\* The summary writes among the operations of the query.
SummaryOps == { i \in DOMAIN op_log : op_log[i].op = "summary" }

\* C23  Every run of a collection driver persists the summary exactly once
\* per processed query, after all records of that query are saved, and
\* exactly once globally at the end of the run: a query that found
\* identifiers ends with one summary write that follows every save, and a
\* run that has ended has written its global summary.
C23_SummaryPerQueryAndGlobal ==
    /\ pc \in {"done", "finished", "crashed"} /\ pmid_list # <<>>
       => /\ Cardinality(SummaryOps) = 1
          /\ op_log[Len(op_log)].op = "summary"
          /\ summary # NoSummary
    /\ pc \in {"finished", "crashed"}
       => overall # NoOverall /\ overall.persisted

\* ---------------------------------------------------------------------
\* C24  The deduplicator never changes its input trees: across every step
\* of a run the metadata and full-text files of the collections stay as
\* they were, and the provenance (the iterations an identifier appeared
\* in) is carried by the records of the merged output only, one entry per
\* input file of the identifier.
C24_InputTreesUntouched ==
    [][ /\ files' = files
        /\ \A p \in Ids(written') :
             /\ out_meta'[p].num_iterations = Cardinality(FilesOf(p))
             /\ Len(out_meta'[p].appeared_in_iterations) = Cardinality(FilesOf(p)) ]_vars

\* A run has merged a duplicated identifier and copied a full-text file.
C24_Witness ==
    /\ dedup_status = "done"
    /\ \E p \in Ids(written) : out_meta[p].is_duplicate
    /\ \E c \in PMIDs : out_ft[c] # 0

\* ---------------------------------------------------------------------
\* C25  Every record saved pairs an identifier with the metadata the source
\* returned for that same identifier: the 'pmid' of each saved content is
\* the uid of the metadata saved with it, whatever the esummary responses
\* omitted and whichever batch failed.
C25_SavedPairsMatch ==
    \A i \in DOMAIN saved : saved[i].pmid = saved[i].metadata.uid

\* ---------------------------------------------------------------------
\* C26  In every per-query summary of collect_category / collect_for_keyword
\* fulltext_collected is the number of full-text files written for the
\* query and metadata_collected is the number of metadata files written.
C26_SummaryCountsFiles ==
    summary # NoSummary /\ collector = "entrez"
    => /\ summary.fulltext_collected = Cardinality(DOMAIN tree_ft)
       /\ summary.metadata_collected = Cardinality(DOMAIN tree_meta)

\* ---------------------------------------------------------------------
\* C27  Every persisted per-query summary satisfies
\* fulltext_collected <= metadata_collected <= total_found.
C27_SummaryCountsOrdered ==
    summary # NoSummary
    => /\ summary.fulltext_collected <= summary.metadata_collected
       /\ summary.metadata_collected <= summary.total_found

\* A summary with all three counts apart: some metadata missing, some
\* record without full text.
C27_Witness ==
    /\ summary # NoSummary
    /\ 0 < summary.fulltext_collected
    /\ summary.fulltext_collected < summary.metadata_collected
    /\ summary.metadata_collected < summary.total_found

\* ---------------------------------------------------------------------
\* The files beyond the first, summed over the identifiers in S.
RECURSIVE ExtraFiles(_)
ExtraFiles(S) ==
    IF S = {} THEN 0
    ELSE LET p == CHOOSE x \in S : TRUE
         IN  (Cardinality(FilesOf(p)) - 1) + ExtraFiles(S \ {p})

\* C28  The report's duplicate_instances is the sum, over the unique
\* identifiers, of the number of files carrying the identifier minus one,
\* whether or not some input files are malformed or carry no identifier.
C28_DuplicateInstances ==
    dedup_status = "done" => report.duplicate_instances = ExtraFiles(InputIds)

\* ---------------------------------------------------------------------
\* C29  After a deduplication run every metadata file in the merged output
\* belongs to an identifier that occurs in the current input trees, also
\* when the output tree already held records of an earlier run over other
\* inputs.
C29_OutputOnlyCurrentIds ==
    dedup_status = "done"
    => \A p \in PMIDs : out_meta[p] # NoRec => p \in InputIds

\* ---------------------------------------------------------------------
\* A run of the deduplicator over trees with no usable metadata file ends
\* normally with its report.
DedupEndsOnEmpty ==
    runs > 0 /\ InputIds = {} => dedup_status = "done" /\ report # NoReport

\* A validation pass over a metadata directory with no file ends normally
\* with its report.
ValidationEndsOnEmpty ==
    vstatus # "idle" /\ dd_dir /\ metadata_files = {}
    => vstatus = "done" /\ vreport # NoVReport

\* C30  The report passes terminate normally on an empty collection:
\* deduplicate_collections over trees with no usable metadata file and
\* generate_validation_report over a metadata directory with no file each
\* run to completion and write their report.
C30_ReportsEndOnEmpty == DedupEndsOnEmpty /\ ValidationEndsOnEmpty

====
